---- MODULE Spec2Model ----
(***************************************************************************)
(* Model of the Xilinx test pattern generator CRTC driver                  *)
(* (drivers/gpu/drm/xlnx/xlnx_tpg.c) and of the video timing controller    *)
(* list it resolves its timing controller from                             *)
(* (drivers/gpu/drm/xlnx/xlnx_vtc_list.c).                                 *)
(*                                                                         *)
(* Every function of the two files is a sequence of steps of the context   *)
(* that runs it; a context's position is its pc.  Four specifications      *)
(* schedule these steps:                                                   *)
(*   SpecList      calls into the VTC list, one call at a time             *)
(*   SpecListConc  calls into the VTC list from concurrent threads         *)
(*   Spec          the CRTC: the KMS callbacks of the commit thread, the   *)
(*                 interrupt handler running concurrently with them, the   *)
(*                 hardware, and the registrations that precede probe      *)
(*   SpecSeq       the CRTC with callbacks and the interrupt handler each  *)
(*                 running to its return before the other starts           *)
(***************************************************************************)
EXTENDS Integers, Sequences, FiniteSets, TLC

(***************************************************************************)
(* Bounds of the model.                                                    *)
(***************************************************************************)
\* VTC interface instances 1..NumHandles; the last one has no of_node.
NumHandles == 3
\* Threads that call into the VTC list concurrently.
NumThreads == 2
\* Pending vblank events (completion tokens) the DRM core hands to the driver.
MaxEvents == 2
\* Bus formats a bridge offers to xlnx_tpg_crtc_select_output_bus_format.
MaxFmts == 2

(***************************************************************************)
(* Program constants.                                                      *)
(***************************************************************************)
NULL == 0
EINVAL == 22
EFAULT == 14
EPROBE_DEFER == 517
ENODEV == 19
\* list_del() leaves these in the entry it removed.
LIST_POISON1 == -1
LIST_POISON2 == -2
\* xlnx_tpg.c register bits and enumerators.
XLNX_TPG_IP_IRQ_AP_DONE == 1
XLNX_TPG_START == 1
XLNX_TPG_AUTO_RESTART == 128
XTPG_PAT_COLOR_BARS == 9
XTPG_FMT_RGB == 0
XTPG_FMT_YUV_444 == 1
XTPG_FMT_YUV_422 == 2
XTPG_FMT_YUV_420 == 3
XTPG_FMT_INVALID == 4
\* <linux/media-bus-format.h> codes named by the format map.
MEDIA_BUS_FMT_RGB666_1X18 == 4105
MEDIA_BUS_FMT_RBG888_1X24 == 4110
MEDIA_BUS_FMT_UYVY8_1X16 == 8207
MEDIA_BUS_FMT_VUY8_1X24 == 8228
MEDIA_BUS_FMT_UYVY10_1X20 == 8218

Handles == 1..NumHandles
\* Device tree nodes; node NumHandles belongs to no VTC instance.
Nodes == 1..NumHandles
Threads == 1..NumThreads

\* vtc->of_node: instance h sits on node h, the last instance has none.
of_node(h) == IF h = NumHandles THEN NULL ELSE h

\* The callbacks instance h implements: the first implements all three, the
\* last none, the others only enable.
vtc_ops(h) ==
    IF h = 1 THEN {"enable", "disable", "set_timing"}
    ELSE IF h = NumHandles THEN {}
    ELSE {"enable"}

Events == 1..MaxEvents
\* crtc->state->adjusted_mode: hdisplay and vdisplay.
Modes == {<<1920, 1080>>, <<640, 480>>}
\* What the device tree gives probe: the bus-format property (NULL: none; 1:
\* MEDIA_BUS_FMT_FIXED, which the format map does not hold) ...
BusFormatProps == {NULL, MEDIA_BUS_FMT_UYVY8_1X16, 1}
\* ... and the node the xlnx,bridge phandle names (NULL: none).
BridgeNodes == Nodes \cup {NULL}
\* The bus formats given to xlnx_tpg_bus_to_color_format: those of its map,
\* and 0, MEDIA_BUS_FMT_FIXED (1) and MEDIA_BUS_FMT_YUYV8_1X16 (8209).
BusFormats ==
    {MEDIA_BUS_FMT_RGB666_1X18, MEDIA_BUS_FMT_RBG888_1X24, MEDIA_BUS_FMT_UYVY8_1X16,
     MEDIA_BUS_FMT_VUY8_1X24, MEDIA_BUS_FMT_UYVY10_1X20, 0, 1, 8209}
\* in_bus_fmts: up to MaxFmts formats out of three.
CandidateFormats == {MEDIA_BUS_FMT_UYVY8_1X16, MEDIA_BUS_FMT_RBG888_1X24, 1}
InBusFmts == UNION {[1..n -> CandidateFormats] : n \in 0..MaxFmts}
\* The three functions of the VTC interface.
VtcOps == {"enable", "disable", "set_timing"}
\* crtc_state->output_bus_format of a proposed state.
CheckFormats == {MEDIA_BUS_FMT_UYVY8_1X16, MEDIA_BUS_FMT_RBG888_1X24}
\* What drm_atomic_helper_check_crtc_primary_plane() returns ...
PlaneCheckResults == {0, -EINVAL}
\* ... and drm_atomic_add_affected_planes(): 0 or -ENOMEM.
AffectedPlanesResults == {0, -12}
\* What a timing controller's callback returns.
CalleeResults == {0, -ENODEV}

\* &vtc_list.head as a list node, next to the entries &vtc->list (1..NumHandles).
HEAD == NumHandles + 1
ListNodes == Handles \cup {HEAD}

VARIABLES
    initialized,    \* vtc_list.initialized
    lock_owner,     \* vtc_list.lock: 0 when free, else the thread holding it
    lock_live,      \* vtc_list.lock is between mutex_init and mutex_destroy
    list_next,      \* ->next of vtc_list.head and of every vtc->list
    list_prev,      \* ->prev of vtc_list.head and of every vtc->list
    thr,            \* per thread: the call in progress, its locals and result
    registered,     \* history: the instances registered and not unregistered
    misuse,         \* history: the kinds of call made outside the API's contract
    tpg,            \* struct xlnx_tpg: probed, vtc, output_bus_format, color_format
    regs,           \* the TPG register space
    drm_event,      \* tpg->drm->event
    state_event,    \* crtc->state->event
    event_lock,     \* crtc->dev->event_lock is held
    kms,            \* the commit thread: the callback in progress and its locals
    irq,            \* the interrupt context: xlnx_tpg_irq_handler in progress
    vblank,         \* the CRTC's vblank state in the DRM core
    sent,           \* per event: times drm_crtc_send_vblank_event() took it
    completed,      \* per event: times complete_all() took its completion
    next_event,     \* the next event the DRM core allocates
    active,         \* the CRTC is enabled: atomic_enable ran, atomic_disable not yet
    watch           \* history: the last event stored in tpg->drm->event and
                    \* what has run since; the node a probe was deferred on

listvars == <<initialized, lock_owner, lock_live, list_next, list_prev, thr,
              registered, misuse>>
tpgvars == <<tpg, regs, drm_event, state_event, event_lock, kms, irq, vblank,
             sent, completed, next_event, active, watch>>
vars == <<initialized, lock_owner, lock_live, list_next, list_prev, thr,
          registered, misuse, tpg, regs, drm_event, state_event, event_lock,
          kms, irq, vblank, sent, completed, next_event, active, watch>>

(***************************************************************************)
(* <linux/list.h> as the list code uses it.  A pointer is a list node, NULL *)
(* or a poison value; following anything but a list node is an oops.       *)
(***************************************************************************)
IsNode(p) == p \in ListNodes

\* INIT_LIST_HEAD(&vtc_list.head)
INIT_LIST_HEAD(nx, pv) ==
    [nx |-> [nx EXCEPT ![HEAD] = HEAD], pv |-> [pv EXCEPT ![HEAD] = HEAD]]

\* __list_add(new, prev, next): the four stores, in program order.
list_add_stores(nx, pv, new, prev, next) ==
    LET pv1 == [pv EXCEPT ![next] = new]
        nx1 == [nx EXCEPT ![new] = next]
        pv2 == [pv1 EXCEPT ![new] = prev]
        nx2 == [nx1 EXCEPT ![prev] = new]
    IN  [nx |-> nx2, pv |-> pv2]

\* __list_add_valid(new, prev, next), the CONFIG_DEBUG_LIST check.
list_add_valid(nx, pv, new, prev, next) ==
    /\ IsNode(prev) /\ IsNode(next)
    /\ pv[next] = prev /\ nx[prev] = next
    /\ new # prev /\ new # next

\* __list_del(prev, next): the two stores.
list_del_stores(nx, pv, prev, next) ==
    [nx |-> [nx EXCEPT ![prev] = next], pv |-> [pv EXCEPT ![next] = prev]]

\* __list_del_entry_valid(entry), the CONFIG_DEBUG_LIST check.
list_del_valid(nx, pv, entry, prev, next) ==
    /\ IsNode(prev) /\ IsNode(next)
    /\ nx[prev] = entry /\ pv[next] = entry

\* list_del() poisons the entry after unlinking it.
list_poison(l, entry) ==
    [nx |-> [l.nx EXCEPT ![entry] = LIST_POISON1],
     pv |-> [l.pv EXCEPT ![entry] = LIST_POISON2]]

\* list_for_each_entry(vtc_pos, &vtc_list.head, list) looking for of_node == np,
\* from position pos with `fuel` entries left to visit before the walk is known
\* to circle without meeting the head.
RECURSIVE list_scan(_, _, _, _)
list_scan(nx, np, pos, fuel) ==
    IF pos = HEAD THEN [kind |-> "ret", ret |-> -EPROBE_DEFER, out |-> NULL]
    ELSE IF ~IsNode(pos) THEN [kind |-> "oops", ret |-> 0, out |-> NULL]
    ELSE IF of_node(pos) = np THEN [kind |-> "ret", ret |-> 0, out |-> pos]
    ELSE IF fuel = 0 THEN [kind |-> "hang", ret |-> 0, out |-> NULL]
    ELSE list_scan(nx, np, nx[pos], fuel - 1)

\* The entries met walking ->next from the head, in order (at most fuel of them).
RECURSIVE list_walk(_, _, _)
list_walk(nx, pos, fuel) ==
    IF pos = HEAD \/ ~IsNode(pos) \/ fuel = 0 THEN <<>>
    ELSE <<pos>> \o list_walk(nx, nx[pos], fuel - 1)

ListContents == list_walk(list_next, list_next[HEAD], NumHandles + 1)

(***************************************************************************)
(* History of the calls, in the words of the interface.                    *)
(***************************************************************************)
SeqSet(s) == {s[i] : i \in 1..Len(s)}
SeqRemove(s, x) == SelectSeq(s, LAMBDA y : y # x)

\* What a lookup of node np is to return, from the history alone.
Expected(np) ==
    LET hits == {i \in 1..Len(registered) : of_node(registered[i]) = np}
    IN  IF hits = {} THEN <<-EPROBE_DEFER, NULL>>
        ELSE <<0, registered[CHOOSE i \in hits : \A j \in hits : i <= j]>>

\* devm_kzalloc()ed struct xlnx_tpg, before a probe has succeeded.
NoTpg == [probed |-> FALSE, vtc |-> NULL, output_bus_format |-> 0, color_format |-> 0]

IdleKms ==
    [pc |-> "idle", op |-> "none", arg |-> <<>>, ret |-> 0, mode |-> <<0, 0>>,
     cap_ret |-> 0, trace |-> <<>>, cb |-> <<>>, pending |-> NULL]

IdleIrq ==
    [pc |-> "idle", status |-> 0, event |-> NULL, ret |-> "none", vbl |-> FALSE,
     armed |-> NULL]

NoWatch == [tok |-> NULL, irq |-> FALSE, dis |-> FALSE, deferred |-> NULL]

IdleThread ==
    [pc |-> "idle", op |-> "none", arg |-> NULL, ret |-> 0, out |-> NULL,
     l_prev |-> NULL, l_next |-> NULL, exp |-> <<>>]

Init ==
    /\ initialized = FALSE
    /\ lock_owner = 0
    /\ lock_live = FALSE
    /\ list_next = [n \in ListNodes |-> NULL]
    /\ list_prev = [n \in ListNodes |-> NULL]
    /\ thr = [t \in Threads |-> IdleThread]
    /\ registered = <<>>
    /\ misuse = {}
    /\ tpg = NoTpg
    /\ regs = [CONTROL |-> 0, GLOBAL_IRQ_EN |-> 0, IP_IRQ_EN |-> 0,
               IP_IRQ_STATUS |-> 0, ACTIVE_HEIGHT |-> 0, ACTIVE_WIDTH |-> 0,
               PATTERN_ID |-> 0, COLOR_FORMAT |-> 0]
    /\ drm_event = NULL
    /\ state_event = NULL
    /\ event_lock = FALSE
    /\ kms = IdleKms
    /\ irq = IdleIrq
    /\ vblank = [on |-> FALSE, enabled |-> FALSE, refs |-> 0]
    /\ sent = [e \in Events |-> 0]
    /\ completed = [e \in Events |-> 0]
    /\ next_event = 1
    /\ active = FALSE
    /\ watch = NoWatch

\* The threads inside a call that has passed its initialized test.
InFlight == {t \in Threads : thr[t].pc \in {"lock", "locked", "write"}}

(***************************************************************************)
(* xlnx_vtc_list_init / xlnx_vtc_list_fini: module init and exit.          *)
(***************************************************************************)
\* return: the result is in thr[t].ret / thr[t].out at pc "ret".
Return(t, r, o) ==
    [thr[t] EXCEPT !.pc = "ret", !.ret = r, !.out = o,
                   !.l_prev = NULL, !.l_next = NULL]

\* What xlnx_of_find_vtc(np) returns when called in the current state.
FindNow(np) ==
    IF ~initialized THEN [kind |-> "ret", ret |-> -EPROBE_DEFER, out |-> NULL]
    ELSE list_scan(list_next, np, list_next[HEAD], NumHandles + 1)

\* What the call finds on entry (exp of the returning thread): the flag, the
\* entries met from the head in list order (after a module exit, those left
\* linked by it), and what a lookup of each node returns.
InitEntry ==
    <<initialized, ListContents, [np \in Nodes |-> FindNow(np)]>>

\* Variant: the list head and the lock are initialized again on every call.
xlnx_vtc_list_init_always(t) ==
    /\ thr[t].pc = "idle"
    /\ LET l == INIT_LIST_HEAD(list_next, list_prev)
       IN  /\ list_next' = l.nx
           /\ list_prev' = l.pv
           /\ lock_owner' = 0
           /\ lock_live' = TRUE
           /\ initialized' = TRUE
           /\ registered' = <<>>
    /\ thr' = [thr EXCEPT ![t] = [Return(t, 0, NULL) EXCEPT !.op = "init",
                                                             !.exp = InitEntry]]
    /\ UNCHANGED misuse
    /\ UNCHANGED tpgvars

\* Thread t calls xlnx_vtc_list_init(); it returns 0 in the same step.
xlnx_vtc_list_init(t) ==
    /\ thr[t].pc = "idle"
    /\ IF ~initialized
       THEN LET l == INIT_LIST_HEAD(list_next, list_prev)
            IN  /\ list_next' = l.nx
                /\ list_prev' = l.pv
                /\ lock_owner' = 0
                /\ lock_live' = TRUE
                /\ initialized' = TRUE
                /\ registered' = <<>>
       ELSE UNCHANGED <<list_next, list_prev, lock_owner, lock_live,
                        initialized, registered>>
    /\ thr' = [thr EXCEPT ![t] = [Return(t, 0, NULL) EXCEPT !.op = "init",
                                                             !.exp = InitEntry]]
    /\ UNCHANGED misuse
    /\ UNCHANGED tpgvars

xlnx_vtc_list_fini ==
    /\ IF initialized
       THEN /\ lock_live' = FALSE
            /\ initialized' = FALSE
            /\ misuse' = IF InFlight = {} THEN misuse
                         ELSE misuse \cup {"fini_during_call"}
       ELSE UNCHANGED <<lock_live, initialized, misuse>>
    /\ UNCHANGED <<lock_owner, list_next, list_prev, thr, registered>>
    /\ UNCHANGED tpgvars

(***************************************************************************)
(* Steps shared by the three list calls.                                   *)
(***************************************************************************)
\* Variant: the lock is taken without waiting for its owner to release it.
mutex_lock_nowait(t) ==
    /\ thr[t].pc = "lock"
    /\ lock_owner' = t
    /\ thr' = [thr EXCEPT ![t].pc = "locked"]
    /\ UNCHANGED <<initialized, lock_live, list_next, list_prev, registered, misuse>>
    /\ UNCHANGED tpgvars

\* mutex_lock(&vtc_list.lock)
mutex_lock(t) ==
    /\ thr[t].pc = "lock"
    /\ lock_owner = 0
    /\ lock_owner' = t
    /\ thr' = [thr EXCEPT ![t].pc = "locked"]
    /\ UNCHANGED <<initialized, lock_live, list_next, list_prev, registered, misuse>>
    /\ UNCHANGED tpgvars

\* The caller takes the result; the thread is free for its next call.
call_return(t) ==
    /\ thr[t].pc = "ret"
    /\ thr' = [thr EXCEPT ![t] = IdleThread]
    /\ UNCHANGED <<initialized, lock_owner, lock_live, list_next, list_prev,
                   registered, misuse>>
    /\ UNCHANGED tpgvars

(***************************************************************************)
(* xlnx_vtc_register                                                       *)
(***************************************************************************)
\* Variant: the initialized test comes before the argument test.
xlnx_vtc_register_entry_swapped(t, vtc) ==
    /\ thr[t].pc = "idle"
    /\ LET c == [thr[t] EXCEPT !.op = "register", !.arg = vtc]
       IN  thr' = [thr EXCEPT ![t] =
                IF ~initialized
                THEN [c EXCEPT !.pc = "ret", !.ret = -EFAULT]
                ELSE IF vtc = NULL \/ of_node(vtc) = NULL
                THEN [c EXCEPT !.pc = "ret", !.ret = -EINVAL]
                ELSE [c EXCEPT !.pc = "lock"]]
    /\ UNCHANGED <<initialized, lock_owner, lock_live, list_next, list_prev,
                   registered, misuse>>
    /\ UNCHANGED tpgvars

xlnx_vtc_register_entry(t, vtc) ==
    /\ thr[t].pc = "idle"
    /\ LET c == [thr[t] EXCEPT !.op = "register", !.arg = vtc]
       IN  thr' = [thr EXCEPT ![t] =
                IF vtc = NULL \/ of_node(vtc) = NULL
                THEN [c EXCEPT !.pc = "ret", !.ret = -EINVAL]
                ELSE IF ~initialized
                THEN [c EXCEPT !.pc = "ret", !.ret = -EFAULT]
                ELSE [c EXCEPT !.pc = "lock"]]
    /\ UNCHANGED <<initialized, lock_owner, lock_live, list_next, list_prev,
                   registered, misuse>>
    /\ UNCHANGED tpgvars

\* list_add_tail(): prev = head->prev is read first ...
xlnx_vtc_register_read(t) ==
    /\ thr[t].pc = "locked" /\ thr[t].op = "register"
    /\ thr' = [thr EXCEPT ![t].pc = "write", ![t].l_prev = list_prev[HEAD],
                          ![t].l_next = HEAD]
    /\ UNCHANGED <<initialized, lock_owner, lock_live, list_next, list_prev,
                   registered, misuse>>
    /\ UNCHANGED tpgvars

\* ... then the entry is linked in, the lock released and 0 returned.  With
\* CONFIG_DEBUG_LIST an add that fails __list_add_valid() is skipped; without it
\* the stores are made whatever the list looks like.
xlnx_vtc_register_add(t) ==
    /\ thr[t].pc = "write" /\ thr[t].op = "register"
    /\ LET new == thr[t].arg
           prev == thr[t].l_prev
           next == thr[t].l_next
           valid == list_add_valid(list_next, list_prev, new, prev, next)
           done == [thr EXCEPT ![t] = Return(t, 0, NULL)]
       IN  /\ registered' = IF new \in SeqSet(registered) THEN registered
                            ELSE Append(registered, new)
           /\ misuse' = IF new \in SeqSet(registered)
                        THEN misuse \cup {"register_twice"} ELSE misuse
           /\ \/ /\ IsNode(prev)
                 /\ LET l == list_add_stores(list_next, list_prev, new, prev, next)
                    IN  list_next' = l.nx /\ list_prev' = l.pv
                 /\ thr' = done
                 /\ lock_owner' = 0
              \/ /\ ~IsNode(prev)
                 /\ thr' = [thr EXCEPT ![t].pc = "oops"]
                 /\ UNCHANGED <<list_next, list_prev, lock_owner>>
              \/ /\ ~valid
                 /\ thr' = done
                 /\ lock_owner' = 0
                 /\ UNCHANGED <<list_next, list_prev>>
    /\ UNCHANGED <<initialized, lock_live>>
    /\ UNCHANGED tpgvars

(***************************************************************************)
(* xlnx_vtc_unregister                                                     *)
(***************************************************************************)
xlnx_vtc_unregister_entry(t, vtc) ==
    /\ thr[t].pc = "idle"
    /\ LET c == [thr[t] EXCEPT !.op = "unregister", !.arg = vtc]
       IN  thr' = [thr EXCEPT ![t] =
                IF vtc = NULL \/ ~initialized
                THEN [c EXCEPT !.pc = "ret"]
                ELSE [c EXCEPT !.pc = "lock"]]
    /\ UNCHANGED <<initialized, lock_owner, lock_live, list_next, list_prev,
                   registered, misuse>>
    /\ UNCHANGED tpgvars

\* list_del(): entry->prev and entry->next are read first ...
xlnx_vtc_unregister_read(t) ==
    /\ thr[t].pc = "locked" /\ thr[t].op = "unregister"
    /\ thr' = [thr EXCEPT ![t].pc = "write", ![t].l_prev = list_prev[thr[t].arg],
                          ![t].l_next = list_next[thr[t].arg]]
    /\ UNCHANGED <<initialized, lock_owner, lock_live, list_next, list_prev,
                   registered, misuse>>
    /\ UNCHANGED tpgvars

\* Variant: the lock is released without the list_del().
xlnx_vtc_unregister_del_nodel(t) ==
    /\ thr[t].pc = "write" /\ thr[t].op = "unregister"
    /\ registered' = SeqRemove(registered, thr[t].arg)
    /\ misuse' = IF thr[t].arg \in SeqSet(registered) THEN misuse
                 ELSE misuse \cup {"unregister_absent"}
    /\ thr' = [thr EXCEPT ![t] = Return(t, 0, NULL)]
    /\ lock_owner' = 0
    /\ UNCHANGED <<initialized, lock_live, list_next, list_prev>>
    /\ UNCHANGED tpgvars

\* ... then the neighbours are joined, the entry poisoned and the lock released.
\* Neighbours that are no list nodes are an oops (the lock stays held) unless
\* CONFIG_DEBUG_LIST catches them, which skips the unlinking.
xlnx_vtc_unregister_del(t) ==
    /\ thr[t].pc = "write" /\ thr[t].op = "unregister"
    /\ LET entry == thr[t].arg
           prev == thr[t].l_prev
           next == thr[t].l_next
           valid == list_del_valid(list_next, list_prev, entry, prev, next)
           cur == [nx |-> list_next, pv |-> list_prev]
           done == [thr EXCEPT ![t] = Return(t, 0, NULL)]
       IN  /\ registered' = SeqRemove(registered, entry)
           /\ misuse' = IF entry \in SeqSet(registered) THEN misuse
                        ELSE misuse \cup {"unregister_absent"}
           /\ \/ /\ IsNode(prev) /\ IsNode(next)
                 /\ LET l == list_poison(
                                list_del_stores(list_next, list_prev, prev, next),
                                entry)
                    IN  list_next' = l.nx /\ list_prev' = l.pv
                 /\ thr' = done
                 /\ lock_owner' = 0
              \/ /\ ~(IsNode(prev) /\ IsNode(next))
                 /\ thr' = [thr EXCEPT ![t].pc = "oops"]
                 /\ UNCHANGED <<list_next, list_prev, lock_owner>>
              \/ /\ ~valid
                 /\ LET l == list_poison(cur, entry)
                    IN  list_next' = l.nx /\ list_prev' = l.pv
                 /\ thr' = done
                 /\ lock_owner' = 0
    /\ UNCHANGED <<initialized, lock_live>>
    /\ UNCHANGED tpgvars

(***************************************************************************)
(* xlnx_of_find_vtc                                                        *)
(***************************************************************************)
\* Variant: the list is searched without the initialized test.
xlnx_of_find_vtc_entry_nocheck(t, np) ==
    /\ thr[t].pc = "idle"
    /\ thr' = [thr EXCEPT ![t] = [thr[t] EXCEPT !.op = "find", !.arg = np,
                                                !.out = NULL, !.ret = -EPROBE_DEFER,
                                                !.pc = "lock"]]
    /\ UNCHANGED <<initialized, lock_owner, lock_live, list_next, list_prev,
                   registered, misuse>>
    /\ UNCHANGED tpgvars

xlnx_of_find_vtc_entry(t, np) ==
    /\ thr[t].pc = "idle"
    /\ LET c == [thr[t] EXCEPT !.op = "find", !.arg = np, !.out = NULL,
                               !.ret = -EPROBE_DEFER]
       IN  thr' = [thr EXCEPT ![t] =
                IF ~initialized
                THEN [c EXCEPT !.pc = "ret", !.exp = <<-EPROBE_DEFER, NULL>>]
                ELSE [c EXCEPT !.pc = "lock"]]
    /\ UNCHANGED <<initialized, lock_owner, lock_live, list_next, list_prev,
                   registered, misuse>>
    /\ UNCHANGED tpgvars

\* The scan under the lock, the unlock and the return.
xlnx_of_find_vtc_scan(t) ==
    /\ thr[t].pc = "locked" /\ thr[t].op = "find"
    /\ LET r == list_scan(list_next, thr[t].arg, list_next[HEAD], NumHandles + 1)
       IN  IF r.kind = "ret"
           THEN /\ thr' = [thr EXCEPT ![t] =
                        [Return(t, r.ret, r.out) EXCEPT !.exp = Expected(thr[t].arg)]]
                /\ lock_owner' = 0
           ELSE /\ thr' = [thr EXCEPT ![t].pc = r.kind]
                /\ UNCHANGED lock_owner
    /\ UNCHANGED <<initialized, lock_live, list_next, list_prev, registered, misuse>>
    /\ UNCHANGED tpgvars

(***************************************************************************)
(* The calls a thread makes into the list.                                 *)
(***************************************************************************)
\* A call starts, with any argument.  The list is followed up to the first
\* call outside the API's contract and through the lookups after it.
ListCall(t) ==
    \/ \E vtc \in Handles \cup {NULL} : misuse = {} /\ xlnx_vtc_register_entry(t, vtc)
    \/ \E vtc \in Handles \cup {NULL} : misuse = {} /\ xlnx_vtc_unregister_entry(t, vtc)
    \/ \E np \in Nodes : xlnx_of_find_vtc_entry(t, np)

\* Another thread's register or unregister of vtc is in progress.
Busy(t, vtc) ==
    \E u \in Threads \ {t} :
        thr[u].pc # "idle" /\ thr[u].op \in {"register", "unregister"} /\ thr[u].arg = vtc

\* A call starts as the owners of the instances make it: an instance is
\* registered when it is not in the list and unregistered when it is, by one
\* thread at a time.
ListCallInContract(t) ==
    \/ \E vtc \in Handles \cup {NULL} :
          /\ vtc \notin SeqSet(registered) /\ ~Busy(t, vtc)
          /\ xlnx_vtc_register_entry(t, vtc)
    \/ \E vtc \in Handles \cup {NULL} :
          /\ vtc \in SeqSet(registered) \cup {NULL} /\ ~Busy(t, vtc)
          /\ xlnx_vtc_unregister_entry(t, vtc)
    \/ \E np \in Nodes : xlnx_of_find_vtc_entry(t, np)

\* A call in progress takes its next step.
ListCont(t) ==
    \/ mutex_lock(t)
    \/ xlnx_vtc_register_read(t)
    \/ xlnx_vtc_register_add(t)
    \/ xlnx_vtc_unregister_read(t)
    \/ xlnx_vtc_unregister_del(t)
    \/ xlnx_of_find_vtc_scan(t)
    \/ call_return(t)

\* No call into the list is in progress.
Quiescent == \A t \in Threads : thr[t].pc = "idle"

\* One call at a time, with any argument: a call runs to its return before the
\* next one starts, and module init and exit run between calls.
NextList ==
    \/ Quiescent /\ xlnx_vtc_list_init(1)
    \/ Quiescent /\ xlnx_vtc_list_fini
    \/ ListCall(1)
    \/ ListCont(1)

SpecList == Init /\ [][NextList]_vars

\* Calls from concurrent threads, over one life of the module: module init runs
\* on the zeroed vtc_list, module exit at any time.  Once module exit has run
\* under a call in progress no new call starts: the calls in progress run on to
\* their end.
NextListConc ==
    \/ list_next[HEAD] = NULL /\ xlnx_vtc_list_init(1)
    \/ xlnx_vtc_list_fini
    \/ \E t \in Threads : misuse = {} /\ ListCallInContract(t)
    \/ \E t \in Threads : ListCont(t)

SpecListConc == Init /\ [][NextListConc]_vars

(***************************************************************************)
(* The TPG CRTC driver, xlnx_tpg.c.                                        *)
(***************************************************************************)
\* Variant: the last entry of the map gives XTPG_FMT_YUV_444.
xlnx_tpg_bus_to_color_format_last(bus_format) ==
    CASE bus_format = MEDIA_BUS_FMT_RGB666_1X18 -> XTPG_FMT_RGB
      [] bus_format = MEDIA_BUS_FMT_RBG888_1X24 -> XTPG_FMT_RGB
      [] bus_format = MEDIA_BUS_FMT_UYVY8_1X16 -> XTPG_FMT_YUV_422
      [] bus_format = MEDIA_BUS_FMT_VUY8_1X24 -> XTPG_FMT_YUV_444
      [] bus_format = MEDIA_BUS_FMT_UYVY10_1X20 -> XTPG_FMT_YUV_444
      [] OTHER -> XTPG_FMT_INVALID

xlnx_tpg_bus_to_color_format(bus_format) ==
    CASE bus_format = MEDIA_BUS_FMT_RGB666_1X18 -> XTPG_FMT_RGB
      [] bus_format = MEDIA_BUS_FMT_RBG888_1X24 -> XTPG_FMT_RGB
      [] bus_format = MEDIA_BUS_FMT_UYVY8_1X16 -> XTPG_FMT_YUV_422
      [] bus_format = MEDIA_BUS_FMT_VUY8_1X24 -> XTPG_FMT_YUV_444
      [] bus_format = MEDIA_BUS_FMT_UYVY10_1X20 -> XTPG_FMT_YUV_422
      [] OTHER -> XTPG_FMT_INVALID

\* Register writes.
xlnx_tpg_set_dimensions(r, w, h) == [r EXCEPT !.ACTIVE_WIDTH = w, !.ACTIVE_HEIGHT = h]
xlnx_tpg_set_pattern(r, pattern) == [r EXCEPT !.PATTERN_ID = pattern]
xlnx_tpg_set_format(r, format) == [r EXCEPT !.COLOR_FORMAT = format]
xlnx_tpg_start(r) == [r EXCEPT !.CONTROL = XLNX_TPG_START + XLNX_TPG_AUTO_RESTART]
xlnx_tpg_enable_irq(r) == [r EXCEPT !.GLOBAL_IRQ_EN = 1, !.IP_IRQ_EN = 1]
xlnx_tpg_disable_irq(r) == [r EXCEPT !.GLOBAL_IRQ_EN = 0, !.IP_IRQ_EN = 0]

\* status & XLNX_TPG_IP_IRQ_AP_DONE
ApDone(status) ==
    ((status \div XLNX_TPG_IP_IRQ_AP_DONE) % 2) * XLNX_TPG_IP_IRQ_AP_DONE

\* Variant: only the instance is tested, not its callback.
xlnx_vtc_iface_call_noop(vtc, op, callee_ret) ==
    IF vtc = NULL
    THEN [ret |-> -EINVAL, called |-> FALSE]
    ELSE [ret |-> callee_ret, called |-> TRUE]

\* xlnx_vtc_iface_enable / _disable / _set_timing: -EINVAL and no callback for
\* a NULL instance or one without the callback, else the callback and its result.
xlnx_vtc_iface_call(vtc, op, callee_ret) ==
    IF vtc = NULL \/ op \notin vtc_ops(vtc)
    THEN [ret |-> -EINVAL, called |-> FALSE]
    ELSE [ret |-> callee_ret, called |-> TRUE]

(***************************************************************************)
(* The CRTC's vblank state in the DRM core (drm_vblank.c): on is the state *)
(* between drm_crtc_vblank_on() and drm_crtc_vblank_off(), enabled is the  *)
(* state between the driver's enable_vblank and disable_vblank callbacks,  *)
(* refs counts the references the driver took and did not put.             *)
(***************************************************************************)
drm_crtc_vblank_on(vb) == [vb EXCEPT !.on = TRUE, !.enabled = vb.enabled \/ vb.refs > 0]

\* Fails, taking no reference, between drm_crtc_vblank_off() and _on().
drm_crtc_vblank_get(vb) ==
    IF ~vb.on THEN vb ELSE [vb EXCEPT !.refs = vb.refs + 1, !.enabled = TRUE]

\* A put without a reference warns and does nothing.
drm_crtc_vblank_put(vb) == IF vb.refs = 0 THEN vb ELSE [vb EXCEPT !.refs = vb.refs - 1]

drm_crtc_vblank_off(vb) == [vb EXCEPT !.on = FALSE, !.enabled = FALSE]

\* The callbacks the DRM core makes when enabled changes:
\* xlnx_tpg_crtc_enable_vblank and xlnx_tpg_crtc_disable_vblank.
vblank_callbacks(old, new, r) ==
    IF ~old.enabled /\ new.enabled THEN xlnx_tpg_enable_irq(r)
    ELSE IF old.enabled /\ ~new.enabled THEN xlnx_tpg_disable_irq(r)
    ELSE r

\* The commit thread returns from the callback op.
KmsReturn(op, r) == [kms EXCEPT !.pc = "ret", !.op = op, !.ret = r]

\* The DRM core takes the callback's return.
kms_return ==
    /\ kms.pc = "ret"
    /\ kms' = IdleKms
    /\ watch' = IF tpg.probed THEN [watch EXCEPT !.deferred = NULL] ELSE watch
    /\ UNCHANGED <<tpg, regs, drm_event, state_event, event_lock, irq, vblank,
                   sent, completed, next_event, active>>
    /\ UNCHANGED listvars

(***************************************************************************)
(* xlnx_tpg_probe, with the device tree giving bus_format and vtc_node.    *)
(* The display bridge is there and xlnx_tpg_drm_init() meets no error.     *)
(***************************************************************************)
\* Variant: the probe goes on when the lookup of the timing controller fails.
xlnx_tpg_probe_nodefer(bus_format, vtc_node) ==
    /\ kms.pc = "idle" /\ ~tpg.probed
    /\ \A t \in Threads : thr[t].pc = "idle"
    /\ LET t1 == [NoTpg EXCEPT !.output_bus_format = bus_format,
                               !.color_format = xlnx_tpg_bus_to_color_format(bus_format)]
           f == FindNow(vtc_node)
           ret(r) == [KmsReturn("probe", r) EXCEPT !.arg = <<bus_format, vtc_node>>]
       IN  IF bus_format = NULL \/ vtc_node = NULL
           THEN /\ kms' = ret(-EINVAL)
                /\ UNCHANGED <<tpg, regs, watch>>
           ELSE IF f.kind # "ret"
           THEN /\ kms' = [kms EXCEPT !.pc = f.kind, !.op = "probe"]
                /\ UNCHANGED <<tpg, regs, watch>>
           ELSE /\ kms' = ret(0)
                /\ tpg' = [t1 EXCEPT !.vtc = f.out, !.probed = TRUE]
                /\ regs' = xlnx_tpg_set_pattern(xlnx_tpg_enable_irq(regs),
                                                XTPG_PAT_COLOR_BARS)
                /\ UNCHANGED watch
    /\ UNCHANGED <<drm_event, state_event, event_lock, irq, vblank, sent,
                   completed, next_event, active>>
    /\ UNCHANGED listvars

xlnx_tpg_probe(bus_format, vtc_node) ==
    /\ kms.pc = "idle" /\ ~tpg.probed
    /\ \A t \in Threads : thr[t].pc = "idle"
    /\ LET t1 == [NoTpg EXCEPT !.output_bus_format = bus_format,
                               !.color_format = xlnx_tpg_bus_to_color_format(bus_format)]
           f == FindNow(vtc_node)
           ret(r) == [KmsReturn("probe", r) EXCEPT !.arg = <<bus_format, vtc_node>>]
       IN  IF bus_format = NULL \/ vtc_node = NULL
           THEN /\ kms' = ret(-EINVAL)
                /\ UNCHANGED <<tpg, regs, watch>>
           ELSE IF f.kind # "ret"
           THEN /\ kms' = [kms EXCEPT !.pc = f.kind, !.op = "probe"]
                /\ UNCHANGED <<tpg, regs, watch>>
           ELSE IF f.ret < 0
           THEN /\ kms' = ret(f.ret)
                /\ watch' = [watch EXCEPT !.deferred = vtc_node]
                /\ UNCHANGED <<tpg, regs>>
           ELSE /\ kms' = ret(0)
                /\ tpg' = [t1 EXCEPT !.vtc = f.out, !.probed = TRUE]
                /\ regs' = xlnx_tpg_set_pattern(xlnx_tpg_enable_irq(regs),
                                                XTPG_PAT_COLOR_BARS)
                /\ UNCHANGED watch
    /\ UNCHANGED <<drm_event, state_event, event_lock, irq, vblank, sent,
                   completed, next_event, active>>
    /\ UNCHANGED listvars

(***************************************************************************)
(* The DRM core swaps in the state of a commit that asks for an event.  A  *)
(* commit waits for the event of the commit before it, and goes on when    *)
(* the wait times out.                                                     *)
(***************************************************************************)
drm_atomic_helper_swap_state ==
    /\ kms.pc = "idle" /\ tpg.probed
    /\ state_event = NULL
    /\ next_event <= MaxEvents
    /\ state_event' = next_event
    /\ next_event' = next_event + 1
    /\ UNCHANGED <<tpg, regs, drm_event, event_lock, kms, irq, vblank, sent,
                   completed, active, watch>>
    /\ UNCHANGED listvars

(***************************************************************************)
(* xlnx_tpg_plane_atomic_update                                            *)
(***************************************************************************)
\* drm_crtc_vblank_on(), the test of crtc->state->event, drm_crtc_vblank_get()
xlnx_tpg_plane_atomic_update_entry ==
    /\ kms.pc = "idle" /\ tpg.probed
    /\ LET on == drm_crtc_vblank_on(vblank)
           got == IF state_event # NULL THEN drm_crtc_vblank_get(on) ELSE on
       IN  /\ vblank' = got
           /\ regs' = vblank_callbacks(vblank, got, regs)
           /\ kms' = IF state_event # NULL
                     THEN [kms EXCEPT !.pc = "pu_store", !.op = "plane_update"]
                     ELSE KmsReturn("plane_update", 0)
    /\ UNCHANGED <<tpg, drm_event, state_event, event_lock, irq, sent,
                   completed, next_event, active, watch>>
    /\ UNCHANGED listvars

\* tpg->drm->event = crtc->state->event; crtc->state->event = NULL;
\* event_lock is not taken.
xlnx_tpg_plane_atomic_update_store ==
    /\ kms.pc = "pu_store"
    /\ drm_event' = state_event
    /\ state_event' = NULL
    /\ watch' = [watch EXCEPT !.tok = state_event, !.irq = FALSE, !.dis = FALSE]
    /\ kms' = KmsReturn("plane_update", 0)
    /\ UNCHANGED <<tpg, regs, event_lock, irq, vblank, sent, completed,
                   next_event, active>>
    /\ UNCHANGED listvars

(***************************************************************************)
(* xlnx_tpg_crtc_check, on a proposed state with crtc_state->enable and    *)
(* crtc_state->output_bus_format, the DRM core's two checks returning      *)
(* plane_ret and planes_ret.                                               *)
(***************************************************************************)
\* Variant: the bus formats are not compared.
xlnx_tpg_crtc_check_nofmt(enable, output_bus_format, plane_ret, planes_ret) ==
    /\ kms.pc = "idle" /\ tpg.probed
    /\ kms' = [KmsReturn("check",
                    IF ~enable THEN planes_ret
                    ELSE IF plane_ret # 0 THEN plane_ret
                    ELSE planes_ret)
                 EXCEPT !.arg = <<enable, output_bus_format, plane_ret>>]
    /\ UNCHANGED <<tpg, regs, drm_event, state_event, event_lock, irq, vblank,
                   sent, completed, next_event, active, watch>>
    /\ UNCHANGED listvars

xlnx_tpg_crtc_check(enable, output_bus_format, plane_ret, planes_ret) ==
    /\ kms.pc = "idle" /\ tpg.probed
    /\ kms' = [KmsReturn("check",
                    IF ~enable THEN planes_ret
                    ELSE IF plane_ret # 0 THEN plane_ret
                    ELSE IF tpg.output_bus_format # output_bus_format THEN -EINVAL
                    ELSE planes_ret)
                 EXCEPT !.arg = <<enable, output_bus_format, plane_ret>>]
    /\ UNCHANGED <<tpg, regs, drm_event, state_event, event_lock, irq, vblank,
                   sent, completed, next_event, active, watch>>
    /\ UNCHANGED listvars

(***************************************************************************)
(* xlnx_tpg_crtc_enable                                                    *)
(***************************************************************************)
\* Variant: the timing controller is not programmed.
xlnx_tpg_crtc_enable_entry_novtc(mode) ==
    /\ kms.pc = "idle" /\ tpg.probed /\ ~active
    /\ kms' = [kms EXCEPT !.pc = "en_dims", !.op = "enable", !.mode = mode]
    /\ UNCHANGED <<tpg, regs, drm_event, state_event, event_lock, irq, vblank,
                   sent, completed, next_event, active, watch>>
    /\ UNCHANGED listvars

\* mode = &crtc->state->adjusted_mode; if (tpg->vtc)
xlnx_tpg_crtc_enable_entry(mode) ==
    /\ kms.pc = "idle" /\ tpg.probed /\ ~active
    /\ kms' = [kms EXCEPT !.pc = IF tpg.vtc # NULL THEN "en_timing" ELSE "en_dims",
                          !.op = "enable", !.mode = mode]
    /\ UNCHANGED <<tpg, regs, drm_event, state_event, event_lock, irq, vblank,
                   sent, completed, next_event, active, watch>>
    /\ UNCHANGED listvars

\* A call through the VTC interface from the callback in progress: the call and
\* the callback it reaches are logged, the result is kept in cap_ret.
VtcCall(op, callee_ret, next_pc) ==
    LET c == xlnx_vtc_iface_call(tpg.vtc, op, callee_ret)
    IN  [kms EXCEPT !.pc = next_pc, !.cap_ret = c.ret,
                    !.trace = Append(kms.trace, "xlnx_vtc_iface_" \o op),
                    !.cb = IF c.called THEN Append(kms.cb, op) ELSE kms.cb]

\* xlnx_vtc_iface_set_timing(tpg->vtc, &vm); the result is dropped.
xlnx_tpg_crtc_enable_set_timing(callee_ret) ==
    /\ kms.pc = "en_timing"
    /\ kms' = VtcCall("set_timing", callee_ret, "en_vtc")
    /\ UNCHANGED <<tpg, regs, drm_event, state_event, event_lock, irq, vblank,
                   sent, completed, next_event, active, watch>>
    /\ UNCHANGED listvars

\* xlnx_vtc_iface_enable(tpg->vtc); the result is dropped.
xlnx_tpg_crtc_enable_vtc(callee_ret) ==
    /\ kms.pc = "en_vtc"
    /\ kms' = VtcCall("enable", callee_ret, "en_dims")
    /\ UNCHANGED <<tpg, regs, drm_event, state_event, event_lock, irq, vblank,
                   sent, completed, next_event, active, watch>>
    /\ UNCHANGED listvars

\* xlnx_tpg_set_dimensions(tpg, mode->hdisplay, mode->vdisplay)
xlnx_tpg_crtc_enable_dimensions ==
    /\ kms.pc = "en_dims"
    /\ regs' = xlnx_tpg_set_dimensions(regs, kms.mode[1], kms.mode[2])
    /\ kms' = [kms EXCEPT !.pc = "en_format",
                          !.trace = Append(kms.trace, "xlnx_tpg_set_dimensions")]
    /\ UNCHANGED <<tpg, drm_event, state_event, event_lock, irq, vblank,
                   sent, completed, next_event, active, watch>>
    /\ UNCHANGED listvars

\* xlnx_tpg_set_format(tpg, tpg->color_format)
xlnx_tpg_crtc_enable_format ==
    /\ kms.pc = "en_format"
    /\ regs' = xlnx_tpg_set_format(regs, tpg.color_format)
    /\ kms' = [kms EXCEPT !.pc = "en_start",
                          !.trace = Append(kms.trace, "xlnx_tpg_set_format")]
    /\ UNCHANGED <<tpg, drm_event, state_event, event_lock, irq, vblank,
                   sent, completed, next_event, active, watch>>
    /\ UNCHANGED listvars

\* xlnx_tpg_start(tpg) and the return
xlnx_tpg_crtc_enable_start ==
    /\ kms.pc = "en_start"
    /\ regs' = xlnx_tpg_start(regs)
    /\ kms' = [KmsReturn("enable", 0) EXCEPT
                  !.trace = Append(kms.trace, "xlnx_tpg_start")]
    /\ active' = TRUE
    /\ UNCHANGED <<tpg, drm_event, state_event, event_lock, irq, vblank,
                   sent, completed, next_event, watch>>
    /\ UNCHANGED listvars

(***************************************************************************)
(* xlnx_tpg_crtc_disable                                                   *)
(***************************************************************************)
\* if (tpg->vtc); pending remembers what tpg->drm->event holds at the call.
xlnx_tpg_crtc_disable_entry ==
    /\ kms.pc = "idle" /\ tpg.probed /\ active
    /\ kms' = [kms EXCEPT !.pc = IF tpg.vtc # NULL THEN "dis_vtc" ELSE "dis_event",
                          !.op = "disable", !.pending = drm_event]
    /\ UNCHANGED <<tpg, regs, drm_event, state_event, event_lock, irq, vblank,
                   sent, completed, next_event, active, watch>>
    /\ UNCHANGED listvars

\* xlnx_vtc_iface_disable(tpg->vtc), which returns nothing
xlnx_tpg_crtc_disable_vtc ==
    /\ kms.pc = "dis_vtc"
    /\ kms' = [VtcCall("disable", 0, "dis_event") EXCEPT !.cap_ret = 0]
    /\ UNCHANGED <<tpg, regs, drm_event, state_event, event_lock, irq, vblank,
                   sent, completed, next_event, active, watch>>
    /\ UNCHANGED listvars

\* Variant: the completion of the event in tpg->drm->event is completed too,
\* and the event left where it is.
xlnx_tpg_crtc_disable_event_slot ==
    /\ kms.pc = "dis_event"
    /\ completed' = [e \in Events |->
                        completed[e] + (IF e = state_event THEN 1 ELSE 0)
                                     + (IF e = drm_event THEN 1 ELSE 0)]
    /\ state_event' = NULL
    /\ kms' = [kms EXCEPT !.pc = "dis_vblank",
                          !.trace = Append(kms.trace, "complete_all")]
    /\ UNCHANGED <<tpg, regs, drm_event, event_lock, irq, vblank, sent,
                   next_event, active, watch>>
    /\ UNCHANGED listvars

\* if (crtc->state->event) { complete_all(crtc->state->event->base.completion);
\* crtc->state->event = NULL; }  tpg->drm->event is not looked at.
xlnx_tpg_crtc_disable_event ==
    /\ kms.pc = "dis_event"
    /\ IF state_event # NULL
       THEN /\ completed' = [completed EXCEPT ![state_event] = @ + 1]
            /\ state_event' = NULL
            /\ kms' = [kms EXCEPT !.pc = "dis_vblank",
                                  !.trace = Append(kms.trace, "complete_all")]
       ELSE /\ kms' = [kms EXCEPT !.pc = "dis_vblank"]
            /\ UNCHANGED <<completed, state_event>>
    /\ UNCHANGED <<tpg, regs, drm_event, event_lock, irq, vblank, sent,
                   next_event, active, watch>>
    /\ UNCHANGED listvars

\* drm_crtc_vblank_off(crtc) and the return
xlnx_tpg_crtc_disable_vblank_off ==
    /\ kms.pc = "dis_vblank"
    /\ vblank' = drm_crtc_vblank_off(vblank)
    /\ regs' = vblank_callbacks(vblank, drm_crtc_vblank_off(vblank), regs)
    /\ kms' = [KmsReturn("disable", 0) EXCEPT
                  !.trace = Append(kms.trace, "drm_crtc_vblank_off")]
    /\ active' = FALSE
    /\ watch' = IF watch.tok # NULL THEN [watch EXCEPT !.dis = TRUE] ELSE watch
    /\ UNCHANGED <<tpg, drm_event, state_event, event_lock, irq, sent,
                   completed, next_event>>
    /\ UNCHANGED listvars

(***************************************************************************)
(* xlnx_tpg_irq_handler.  The line is shared: the handler runs whenever    *)
(* any device on it interrupts.                                            *)
(***************************************************************************)
\* Variant: the handler goes on to the vblank whatever the status.
xlnx_tpg_irq_handler_entry_nomask ==
    /\ irq.pc = "idle" /\ tpg.probed
    /\ regs' = [regs EXCEPT !.IP_IRQ_STATUS = 0]
    /\ irq' = [irq EXCEPT !.pc = "irq_lock", !.status = regs.IP_IRQ_STATUS,
                          !.vbl = TRUE, !.armed = drm_event]
    /\ UNCHANGED <<tpg, drm_event, state_event, event_lock, kms, vblank, sent,
                   completed, next_event, active, watch>>
    /\ UNCHANGED listvars

\* The status is read and written back, which clears it; without the
\* frame-done bit the handler returns IRQ_NONE, with it the vblank is handled.
\* armed remembers what tpg->drm->event holds when a frame-done call starts.
xlnx_tpg_irq_handler_entry ==
    /\ irq.pc = "idle" /\ tpg.probed
    /\ LET status == regs.IP_IRQ_STATUS
       IN  /\ regs' = [regs EXCEPT !.IP_IRQ_STATUS = 0]
           /\ irq' = IF ApDone(status) = 0
                     THEN [irq EXCEPT !.pc = "ret", !.status = status,
                                      !.ret = "IRQ_NONE"]
                     ELSE [irq EXCEPT !.pc = "irq_lock", !.status = status,
                                      !.vbl = TRUE, !.armed = drm_event]
    /\ UNCHANGED <<tpg, drm_event, state_event, event_lock, kms, vblank, sent,
                   completed, next_event, active, watch>>
    /\ UNCHANGED listvars

\* spin_lock_irqsave(&crtc->dev->event_lock); event = tpg->drm->event;
xlnx_tpg_irq_handler_lock ==
    /\ irq.pc = "irq_lock"
    /\ ~event_lock
    /\ event_lock' = TRUE
    /\ irq' = [irq EXCEPT !.pc = "irq_clear", !.event = drm_event]
    /\ UNCHANGED <<tpg, regs, drm_event, state_event, kms, vblank, sent,
                   completed, next_event, active, watch>>
    /\ UNCHANGED listvars

\* Variant: tpg->drm->event is left as it is.
xlnx_tpg_irq_handler_clear_skip ==
    /\ irq.pc = "irq_clear"
    /\ irq' = [irq EXCEPT !.pc = "irq_send"]
    /\ UNCHANGED <<tpg, regs, drm_event, state_event, event_lock, kms, vblank,
                   sent, completed, next_event, active, watch>>
    /\ UNCHANGED listvars

\* tpg->drm->event = NULL;
xlnx_tpg_irq_handler_clear ==
    /\ irq.pc = "irq_clear"
    /\ drm_event' = NULL
    /\ irq' = [irq EXCEPT !.pc = "irq_send"]
    /\ UNCHANGED <<tpg, regs, state_event, event_lock, kms, vblank, sent,
                   completed, next_event, active, watch>>
    /\ UNCHANGED listvars

\* if (event) { drm_crtc_send_vblank_event(); drm_crtc_vblank_put(); }
\* spin_unlock_irqrestore(); return IRQ_HANDLED;
xlnx_tpg_irq_handler_send ==
    /\ irq.pc = "irq_send"
    /\ IF irq.event # NULL
       THEN /\ sent' = [sent EXCEPT ![irq.event] = @ + 1]
            /\ vblank' = drm_crtc_vblank_put(vblank)
       ELSE UNCHANGED <<sent, vblank>>
    /\ event_lock' = FALSE
    /\ irq' = [irq EXCEPT !.pc = "ret", !.ret = "IRQ_HANDLED"]
    /\ watch' = IF irq.armed # NULL /\ irq.armed = watch.tok
                THEN [watch EXCEPT !.irq = TRUE] ELSE watch
    /\ UNCHANGED <<tpg, regs, drm_event, state_event, kms, completed,
                   next_event, active>>
    /\ UNCHANGED listvars

\* The interrupt core takes the handler's return.
irq_return ==
    /\ irq.pc = "ret"
    /\ irq' = IdleIrq
    /\ UNCHANGED <<tpg, regs, drm_event, state_event, event_lock, kms, vblank,
                   sent, completed, next_event, active, watch>>
    /\ UNCHANGED listvars

(***************************************************************************)
(* The hardware and the DRM core's timer.                                  *)
(***************************************************************************)
\* The started generator finishes a frame: with the interrupt enabled the
\* frame-done bit of the status register is latched.
HwFrameDone ==
    /\ regs.CONTROL % 2 = XLNX_TPG_START
    /\ regs.IP_IRQ_EN = 1
    /\ regs.IP_IRQ_STATUS = 0
    /\ regs' = [regs EXCEPT !.IP_IRQ_STATUS = XLNX_TPG_IP_IRQ_AP_DONE]
    /\ UNCHANGED <<tpg, drm_event, state_event, event_lock, kms, irq, vblank,
                   sent, completed, next_event, active, watch>>
    /\ UNCHANGED listvars

\* vblank_disable_fn(): some time after the last reference is put the DRM core
\* disables the vblank interrupt through xlnx_tpg_crtc_disable_vblank.
vblank_disable_fn ==
    /\ vblank.on /\ vblank.enabled /\ vblank.refs = 0
    /\ kms.pc = "idle"
    /\ vblank' = [vblank EXCEPT !.enabled = FALSE]
    /\ regs' = xlnx_tpg_disable_irq(regs)
    /\ UNCHANGED <<tpg, drm_event, state_event, event_lock, kms, irq, sent,
                   completed, next_event, active, watch>>
    /\ UNCHANGED listvars

(***************************************************************************)
(* Calls of the functions that change no state of the driver: the caller   *)
(* is the commit thread, the arguments are in kms.arg and the result in    *)
(* kms.ret at the return.                                                  *)
(***************************************************************************)
\* xlnx_vtc_iface_enable / _disable / _set_timing on any instance or NULL;
\* kms.cb logs the callback reached.  xlnx_vtc_iface_disable returns nothing.
xlnx_vtc_iface(vtc, op, callee_ret) ==
    /\ kms.pc = "idle"
    /\ LET c == xlnx_vtc_iface_call(vtc, op, callee_ret)
       IN  kms' = [KmsReturn("xlnx_vtc_iface", IF op = "disable" THEN 0 ELSE c.ret)
                     EXCEPT !.arg = <<vtc, op, callee_ret>>,
                            !.cb = IF c.called THEN <<op>> ELSE <<>>]
    /\ UNCHANGED <<tpg, regs, drm_event, state_event, event_lock, irq, vblank,
                   sent, completed, next_event, active, watch>>
    /\ UNCHANGED listvars

bus_to_color_format_call(bus_format) ==
    /\ kms.pc = "idle"
    /\ kms' = [KmsReturn("xlnx_tpg_bus_to_color_format",
                         xlnx_tpg_bus_to_color_format(bus_format))
                 EXCEPT !.arg = <<bus_format>>]
    /\ UNCHANGED <<tpg, regs, drm_event, state_event, event_lock, irq, vblank,
                   sent, completed, next_event, active, watch>>
    /\ UNCHANGED listvars

\* for (i = 0; i < num_in_bus_fmts; ++i) if (in_bus_fmts[i] == ...) return ...
RECURSIVE select_scan(_, _, _)
select_scan(in_bus_fmts, i, output_bus_format) ==
    IF i > Len(in_bus_fmts) THEN 0
    ELSE IF in_bus_fmts[i] = output_bus_format THEN output_bus_format
    ELSE select_scan(in_bus_fmts, i + 1, output_bus_format)

\* Variant: the first format offered is returned.
xlnx_tpg_crtc_select_output_bus_format_first(in_bus_fmts) ==
    /\ kms.pc = "idle" /\ tpg.probed
    /\ kms' = [KmsReturn("select_output_bus_format",
                         IF Len(in_bus_fmts) > 0 THEN in_bus_fmts[1] ELSE 0)
                 EXCEPT !.arg = <<in_bus_fmts>>]
    /\ UNCHANGED <<tpg, regs, drm_event, state_event, event_lock, irq, vblank,
                   sent, completed, next_event, active, watch>>
    /\ UNCHANGED listvars

xlnx_tpg_crtc_select_output_bus_format(in_bus_fmts) ==
    /\ kms.pc = "idle" /\ tpg.probed
    /\ kms' = [KmsReturn("select_output_bus_format",
                         select_scan(in_bus_fmts, 1, tpg.output_bus_format))
                 EXCEPT !.arg = <<in_bus_fmts>>]
    /\ UNCHANGED <<tpg, regs, drm_event, state_event, event_lock, irq, vblank,
                   sent, completed, next_event, active, watch>>
    /\ UNCHANGED listvars

(***************************************************************************)
(* The CRTC's specifications.                                              *)
(***************************************************************************)
\* Before the probe: the module init of the VTC list and the registrations of
\* the timing controllers, each instance once, in the order of the instances.
VtcDrivers ==
    \/ ~initialized /\ xlnx_vtc_list_init(1)
    \/ \E vtc \in Handles :
          vtc = Len(registered) + 1 /\ xlnx_vtc_register_entry(1, vtc)
    \/ mutex_lock(1)
    \/ xlnx_vtc_register_read(1)
    \/ xlnx_vtc_register_add(1)
    \/ call_return(1)

\* The commit thread starts a callback.
KmsCall ==
    \/ \E b \in BusFormatProps, np \in BridgeNodes : xlnx_tpg_probe(b, np)
    \/ drm_atomic_helper_swap_state
    \/ xlnx_tpg_plane_atomic_update_entry
    \/ \E mode \in Modes : xlnx_tpg_crtc_enable_entry(mode)
    \/ xlnx_tpg_crtc_disable_entry

\* The commit thread checks a proposed state.
KmsCheck ==
    \E enable \in BOOLEAN, fmt \in CheckFormats,
       plane_ret \in PlaneCheckResults, planes_ret \in AffectedPlanesResults :
        xlnx_tpg_crtc_check(enable, fmt, plane_ret, planes_ret)

\* The callback in progress takes its next step.
KmsCont ==
    \/ xlnx_tpg_plane_atomic_update_store
    \/ \E r \in CalleeResults : xlnx_tpg_crtc_enable_set_timing(r)
    \/ \E r \in CalleeResults : xlnx_tpg_crtc_enable_vtc(r)
    \/ xlnx_tpg_crtc_enable_dimensions
    \/ xlnx_tpg_crtc_enable_format
    \/ xlnx_tpg_crtc_enable_start
    \/ xlnx_tpg_crtc_disable_vtc
    \/ xlnx_tpg_crtc_disable_event
    \/ xlnx_tpg_crtc_disable_vblank_off
    \/ kms_return

\* The handler in progress takes its next step.
IrqCont ==
    \/ xlnx_tpg_irq_handler_lock
    \/ xlnx_tpg_irq_handler_clear
    \/ xlnx_tpg_irq_handler_send
    \/ irq_return

Hardware ==
    \/ HwFrameDone
    \/ vblank_disable_fn

\* The commit thread and the interrupt handler run concurrently.
Next ==
    \/ ~tpg.probed /\ kms.pc = "idle" /\ VtcDrivers
    \/ KmsCall
    \/ KmsCont
    \/ xlnx_tpg_irq_handler_entry
    \/ IrqCont
    \/ Hardware

Spec == Init /\ [][Next]_vars

\* A callback and the handler each run to their return before the other starts.
NextSeq ==
    \/ ~tpg.probed /\ kms.pc = "idle" /\ VtcDrivers
    \/ irq.pc = "idle" /\ KmsCall
    \/ irq.pc = "idle" /\ KmsCheck
    \/ KmsCont
    \/ kms.pc = "idle" /\ xlnx_tpg_irq_handler_entry
    \/ IrqCont
    \/ Hardware

\* The calls of the functions that change no state, before and after the probe.
NextCalls ==
    \/ ~tpg.probed /\ kms.pc = "idle" /\ VtcDrivers
    \/ \E b \in BusFormatProps, np \in BridgeNodes : xlnx_tpg_probe(b, np)
    \/ \E vtc \in Handles \cup {NULL}, op \in VtcOps, r \in CalleeResults :
          xlnx_vtc_iface(vtc, op, r)
    \/ \E b \in BusFormats : bus_to_color_format_call(b)
    \/ \E fmts \in InBusFmts : xlnx_tpg_crtc_select_output_bus_format(fmts)
    \/ kms_return

SpecCalls == Init /\ [][NextCalls]_vars

\* The concurrent CRTC under fair scheduling: a callback and the handler, once
\* started, run on to their return; the interrupt line gets served; the
\* generator, while started with its interrupt enabled, finishes frames.
\* Nothing obliges the DRM core to make further commits.
SpecFair ==
    /\ Spec
    /\ WF_vars(KmsCont)
    /\ WF_vars(xlnx_tpg_irq_handler_entry)
    /\ WF_vars(IrqCont)
    /\ WF_vars(HwFrameDone)

SpecSeq == Init /\ [][NextSeq]_vars

(***************************************************************************)
(* Properties of the VTC list.                                             *)
(***************************************************************************)
\* The thread has returned from a call of op and its result is not yet taken.
Returned(t, op) == thr[t].pc = "ret" /\ thr[t].op = op

\* C5: on an initialized list, after any sequence of registers of instances not
\* in the list and unregisters of instances in it (the instances' nodes being
\* pairwise distinct), a lookup of a node returns 0 and the instance now
\* registered on it, and -EPROBE_DEFER and NULL for a node whose instance was
\* never registered or has been unregistered.  This holds of the lookup a
\* thread has just returned from and of a lookup of any node made now.
C5_FindReturnsRegistered ==
    (initialized /\ misuse = {}) =>
        /\ \A np \in Nodes :
              /\ FindNow(np).kind = "ret"
              /\ <<FindNow(np).ret, FindNow(np).out>> = Expected(np)
        /\ \A t \in Threads :
              Returned(t, "find") => <<thr[t].ret, thr[t].out>> = Expected(thr[t].arg)

\* A lookup returned the second of two registered instances after the first
\* one was unregistered.
C5_Witness ==
    /\ initialized /\ misuse = {}
    /\ \E t \in Threads : Returned(t, "find") /\ thr[t].ret = 0 /\ thr[t].out = 2
    /\ registered = <<2>>
    /\ list_next[1] = LIST_POISON1

\* C6: a lookup made while the list is uninitialized (before module init, or
\* after module exit with instances still registered) returns -EPROBE_DEFER and
\* a NULL instance, never an instance.
C6_FindUninitializedDefers ==
    \A t \in Threads :
        (Returned(t, "find") /\ ~initialized) =>
            (thr[t].ret = -EPROBE_DEFER /\ thr[t].out = NULL)

\* A lookup of a registered instance's node returned after module exit.
C6_Witness ==
    /\ ~initialized /\ misuse = {}
    /\ \E t \in Threads :
          /\ Returned(t, "find")
          /\ \E i \in 1..Len(registered) : of_node(registered[i]) = thr[t].arg
          /\ thr[t].arg \in SeqSet(ListContents)

\* C7: xlnx_vtc_unregister() of an instance that is not in the list (never
\* registered, or unregistered before) is a no-op on an initialized list: the
\* call returns, the instances in the list and their order stay as they were,
\* and every lookup still returns what it returned before.
C7_UnregisterAbsentIsNoOp ==
    (initialized /\ misuse \subseteq {"unregister_absent"}) =>
        /\ \A t \in Threads : thr[t].pc \notin {"oops", "hang"}
        /\ ListContents = registered
        /\ \A np \in Nodes :
              /\ FindNow(np).kind = "ret"
              /\ <<FindNow(np).ret, FindNow(np).out>> = Expected(np)

\* C8: xlnx_vtc_register(vtc) returns -EINVAL when vtc or its of_node is NULL,
\* -EFAULT when vtc is valid and the list is uninitialized, and 0 otherwise, the
\* instance then being the last entry of the list; a failed call leaves the
\* list as it was (the instances in it are those of the history, which a failed
\* call does not extend).
C8_RegisterResult ==
    \A t \in Threads :
        Returned(t, "register") =>
            LET vtc == thr[t].arg
                absent == vtc = NULL \/ of_node(vtc) = NULL
            IN  /\ absent => thr[t].ret = -EINVAL
                /\ (~absent /\ ~initialized) => thr[t].ret = -EFAULT
                /\ (~absent /\ initialized) => thr[t].ret = 0
                /\ misuse = {} =>
                      /\ ListContents = registered
                      /\ thr[t].ret = 0 =>
                            /\ list_prev[HEAD] = vtc
                            /\ list_next[vtc] = HEAD
                            /\ ListContents[Len(ListContents)] = vtc

\* A register returned 0 with its instance behind the one registered before.
C8_Witness ==
    /\ misuse = {}
    /\ \E t \in Threads : Returned(t, "register") /\ thr[t].ret = 0 /\ thr[t].arg = 1
    /\ ListContents = <<2, 1>>

\* The threads that hold vtc_list.lock by their position.
InCritical == {t \in Threads : thr[t].pc \in {"locked", "write"}}

\* C9: between module init and module exit, with register, unregister and
\* lookup running in concurrent threads, at most one thread is inside the
\* locked section, the list holds the registered instances in the order of
\* their registration in every state, and every lookup returns what the
\* history said when it scanned under the lock: an instance whose register
\* released the lock before the lookup took it (and was not unregistered) is
\* returned, an unregistered one is not.
C9_Linearizable ==
    misuse = {} =>
        /\ Cardinality(InCritical) <= 1
        /\ \A t \in InCritical : lock_owner = t
        /\ ListContents = registered
        /\ \A t \in Threads :
              Returned(t, "find") => <<thr[t].ret, thr[t].out>> = thr[t].exp

\* A lookup returned an instance while another thread, which took the lock
\* after it, is unregistering that instance.
C9_Witness ==
    /\ misuse = {} /\ initialized
    /\ \E t \in Threads, u \in Threads :
          /\ t # u
          /\ Returned(t, "find") /\ thr[t].ret = 0
          /\ thr[u].pc = "write" /\ thr[u].op = "unregister"
          /\ thr[u].arg = thr[t].out

(***************************************************************************)
(* Properties of the CRTC.                                                 *)
(***************************************************************************)
\* The times the event has been resolved: sent as a vblank event or completed.
Resolved(e) == sent[e] + completed[e]

\* The commit thread has returned from the callback op.
KmsReturned(op) == kms.pc = "ret" /\ kms.op = op

\* The handler has returned IRQ_HANDLED.
IrqHandled == irq.pc = "ret" /\ irq.ret = "IRQ_HANDLED"

\* C1: when xlnx_tpg_crtc_disable is called while tpg->drm->event holds an
\* event, at its return tpg->drm->event is NULL and that event has been
\* resolved exactly once; and no event is ever resolved a second time, by an
\* interrupt after the disable or otherwise.
C1_DisableResolvesPending ==
    /\ \A e \in Events : Resolved(e) <= 1
    /\ (KmsReturned("disable") /\ kms.pending # NULL) =>
          (drm_event = NULL /\ Resolved(kms.pending) = 1)

\* C2: once an event is stored in tpg->drm->event, a frame-done call of the
\* interrupt handler that started while the event was there and a call of
\* xlnx_tpg_crtc_disable made after the store have both finished, in whatever
\* way their steps interleaved, the event has been resolved exactly once; and
\* no event is ever resolved twice.
C2_IrqAndDisableResolveOnce ==
    /\ \A e \in Events : Resolved(e) <= 1
    /\ (watch.tok # NULL /\ watch.irq /\ watch.dis) => Resolved(watch.tok) = 1

\* The handler and the disable callback, run side by side on a stored event,
\* have both reached their return and the event was sent once.
C2_Witness ==
    /\ watch.tok # NULL /\ watch.irq /\ watch.dis
    /\ KmsReturned("disable") /\ kms.pending = watch.tok
    /\ IrqHandled /\ irq.event = watch.tok
    /\ sent[watch.tok] = 1 /\ completed[watch.tok] = 0

\* C3: the handler's read, clear and dispatch of tpg->drm->event are atomic
\* with respect to a store of a new event by xlnx_tpg_plane_atomic_update: when
\* the handler clears tpg->drm->event, what it clears is what it read, so that
\* no event stored in between is cleared without being delivered.
C3_HandoffAtomic ==
    [][xlnx_tpg_irq_handler_clear => drm_event = irq.event]_vars

EnableOrder ==
    IF tpg.vtc # NULL
    THEN <<"xlnx_vtc_iface_set_timing", "xlnx_vtc_iface_enable",
           "xlnx_tpg_set_dimensions", "xlnx_tpg_set_format", "xlnx_tpg_start">>
    ELSE <<"xlnx_tpg_set_dimensions", "xlnx_tpg_set_format", "xlnx_tpg_start">>

IsPrefix(s, t) == Len(s) <= Len(t) /\ s = SubSeq(t, 1, Len(s))

\* C10: xlnx_tpg_crtc_enable with a timing controller calls, in this order,
\* the interface's set_timing, the interface's enable, the write of the
\* mode's dimensions, the write of tpg->color_format and the start of the
\* generator (without a timing controller, the last three): the calls made so
\* far are at every step a prefix of that order, and at the return they are all
\* made and the registers hold the mode's dimensions, the color format and
\* START | AUTO_RESTART.
C10_EnableOrder ==
    kms.op = "enable" =>
        /\ IsPrefix(kms.trace, EnableOrder)
        /\ kms.pc = "ret" =>
              /\ kms.trace = EnableOrder
              /\ regs.ACTIVE_WIDTH = kms.mode[1]
              /\ regs.ACTIVE_HEIGHT = kms.mode[2]
              /\ regs.COLOR_FORMAT = tpg.color_format
              /\ regs.CONTROL = XLNX_TPG_START + XLNX_TPG_AUTO_RESTART

\* The enable callback has returned, having reached both callbacks of its
\* timing controller before the generator's registers.
C10_Witness ==
    /\ KmsReturned("enable") /\ tpg.vtc # NULL
    /\ kms.cb = <<"set_timing", "enable">>
    /\ Len(kms.trace) = 5 /\ kms.trace[5] = "xlnx_tpg_start"
    /\ regs.ACTIVE_WIDTH = 640

\* C11: a failure of the timing controller's set_timing or enable during
\* xlnx_tpg_crtc_enable is returned to the caller of the enable: once a call
\* through the VTC interface has returned a negative result, the callback has
\* returned that result and has not gone on to start the generator.
C11_EnableReturnsVtcFailure ==
    (kms.op = "enable" /\ kms.cap_ret < 0) =>
        /\ kms.pc = "ret"
        /\ kms.ret = kms.cap_ret
        /\ \A i \in 1..Len(kms.trace) : kms.trace[i] # "xlnx_tpg_start"

\* C12: xlnx_tpg_crtc_check returns -EINVAL for a proposed state that enables
\* the CRTC with an output bus format other than tpg->output_bus_format, and
\* a check that returns an error has changed neither the CRTC's being enabled
\* or disabled, nor tpg->drm->event, nor a register.
C12_CheckRejectsMismatch ==
    [][(kms.pc = "idle" /\ kms'.pc = "ret" /\ kms'.op = "check") =>
          /\ (kms'.arg[1] /\ kms'.arg[2] # tpg.output_bus_format) =>
                kms'.ret = -EINVAL
          /\ kms'.ret < 0 =>
                UNCHANGED <<active, drm_event, state_event, regs, vblank, tpg>>]_vars

\* A check of an enabling state with another bus format, on the disabled CRTC
\* and with its primary plane in place, has returned -EINVAL.
C12_Witness ==
    /\ KmsReturned("check") /\ kms.ret = -EINVAL
    /\ kms.arg = <<TRUE, MEDIA_BUS_FMT_RBG888_1X24, 0>>
    /\ tpg.output_bus_format = MEDIA_BUS_FMT_UYVY8_1X16
    /\ ~active /\ regs.CONTROL = 0

\* C13: a bus format that xlnx_tpg_bus_to_color_format maps to
\* XTPG_FMT_INVALID makes the probe fail: no probed device has the color format
\* XTPG_FMT_INVALID, none such is enabled, and XTPG_FMT_INVALID is never in
\* the color format register.
C13_InvalidFormatFailsProbe ==
    /\ tpg.color_format = XTPG_FMT_INVALID => (~tpg.probed /\ ~active)
    /\ regs.COLOR_FORMAT # XTPG_FMT_INVALID

\* C14: a probe that names a node with no timing controller registered on it
\* returns the -EPROBE_DEFER of xlnx_of_find_vtc and leaves the device
\* unprobed, and an unprobed device is never enabled nor its generator
\* started; a probe that names a node with a timing controller registered on
\* it, a retry after a deferred probe included, resolves that controller and
\* succeeds.
C14_ProbeDefersUntilRegistered ==
    /\ ~tpg.probed => (~active /\ regs.CONTROL = 0 /\ tpg = NoTpg)
    /\ (KmsReturned("probe") /\ kms.arg[1] # NULL /\ kms.arg[2] # NULL) =>
          IF Expected(kms.arg[2])[1] = 0
          THEN kms.ret = 0 /\ tpg.probed /\ tpg.vtc = Expected(kms.arg[2])[2]
          ELSE kms.ret = -EPROBE_DEFER /\ ~tpg.probed

\* The probe was deferred on a node, the node's timing controller registered,
\* and the retry has resolved it.
C14_Witness ==
    /\ KmsReturned("probe") /\ kms.ret = 0
    /\ watch.deferred # NULL /\ watch.deferred = kms.arg[2]
    /\ tpg.probed /\ of_node(tpg.vtc) = watch.deferred

\* C15: a probe without an xlnx,bridge node is valid: with the bus-format
\* property present it returns 0 and the device is probed with tpg->vtc NULL.
C15_ProbeWithoutVtc ==
    (KmsReturned("probe") /\ kms.arg[1] # NULL /\ kms.arg[2] = NULL) =>
        (kms.ret = 0 /\ tpg.probed /\ tpg.vtc = NULL)

\* C16: an event pending in tpg->drm->event of the enabled CRTC is eventually
\* resolved, sent by the interrupt handler or completed by the disable
\* callback, under fair scheduling of the callbacks, the handler and the
\* hardware.
C16_PendingEventuallyResolved ==
    \A e \in Events : (drm_event = e /\ active) ~> (Resolved(e) >= 1)

\* C17: a function of the VTC interface called with a NULL instance or with
\* an instance that lacks the callback reaches no callback, and
\* xlnx_vtc_iface_enable and xlnx_vtc_iface_set_timing then return -EINVAL;
\* called with an instance that has the callback it reaches that callback
\* exactly once, and the two return what the callback returned.
C17_IfaceForwards ==
    KmsReturned("xlnx_vtc_iface") =>
        LET vtc == kms.arg[1]
            op == kms.arg[2]
            callee_ret == kms.arg[3]
        IN  IF vtc = NULL \/ op \notin vtc_ops(vtc)
            THEN kms.cb = <<>> /\ (op # "disable" => kms.ret = -EINVAL)
            ELSE kms.cb = <<op>> /\ (op # "disable" => kms.ret = callee_ret)

\* xlnx_vtc_iface_set_timing on an instance without the set_timing callback
\* has returned -EINVAL having reached no callback.
C17_Witness ==
    /\ KmsReturned("xlnx_vtc_iface") /\ kms.arg[2] = "set_timing"
    /\ kms.arg[1] # NULL /\ "set_timing" \notin vtc_ops(kms.arg[1])
    /\ kms.arg[3] = 0 /\ kms.ret = -EINVAL /\ kms.cb = <<>>

\* The color format the map lists for a bus format.
ColorFormatTable ==
    (MEDIA_BUS_FMT_RGB666_1X18 :> XTPG_FMT_RGB) @@
    (MEDIA_BUS_FMT_RBG888_1X24 :> XTPG_FMT_RGB) @@
    (MEDIA_BUS_FMT_UYVY8_1X16 :> XTPG_FMT_YUV_422) @@
    (MEDIA_BUS_FMT_UYVY10_1X20 :> XTPG_FMT_YUV_422) @@
    (MEDIA_BUS_FMT_VUY8_1X24 :> XTPG_FMT_YUV_444)

\* C19: xlnx_tpg_bus_to_color_format returns, in whatever state it is called,
\* the color format listed for a bus format of its map (RGB for RGB666_1X18
\* and RBG888_1X24, YUV 4:2:2 for UYVY8_1X16 and UYVY10_1X20, YUV 4:4:4 for
\* VUY8_1X24) and XTPG_FMT_INVALID for every other bus format.
C19_BusToColorFormat ==
    KmsReturned("xlnx_tpg_bus_to_color_format") =>
        IF kms.arg[1] \in DOMAIN ColorFormatTable
        THEN kms.ret = ColorFormatTable[kms.arg[1]]
        ELSE kms.ret = XTPG_FMT_INVALID

\* The function has returned YUV 4:2:2 for UYVY10_1X20 on the probed device.
C19_Witness ==
    /\ KmsReturned("xlnx_tpg_bus_to_color_format")
    /\ kms.arg = <<MEDIA_BUS_FMT_UYVY10_1X20>> /\ kms.ret = XTPG_FMT_YUV_422
    /\ tpg.probed

\* C20: xlnx_tpg_crtc_select_output_bus_format returns tpg->output_bus_format
\* when that format is among the formats offered and 0 when it is not, and so
\* never an offered format other than tpg->output_bus_format; the call changes
\* nothing of the device, its registers, the event slots or the VTC list.
C20_SelectOutputBusFormat ==
    [][(kms.pc = "idle" /\ kms'.pc = "ret" /\ kms'.op = "select_output_bus_format") =>
          LET in_bus_fmts == kms'.arg[1]
          IN  /\ IF \E i \in 1..Len(in_bus_fmts) : in_bus_fmts[i] = tpg.output_bus_format
                 THEN kms'.ret = tpg.output_bus_format
                 ELSE kms'.ret = 0
              /\ UNCHANGED <<tpg, regs, drm_event, state_event, vblank, active>>
              /\ UNCHANGED listvars]_vars

\* The device's format was offered second, after another one, and returned.
C20_Witness ==
    /\ KmsReturned("select_output_bus_format")
    /\ kms.arg[1] = <<MEDIA_BUS_FMT_RBG888_1X24, MEDIA_BUS_FMT_UYVY8_1X16>>
    /\ kms.ret = MEDIA_BUS_FMT_UYVY8_1X16

\* C18: xlnx_vtc_list_init called on the initialized list returns 0 and leaves
\* the list initialized with the same entries in the same order, so that a
\* lookup of any node returns what it returned before the call.
C18_InitIdempotent ==
    \A t \in Threads :
        (Returned(t, "init") /\ thr[t].exp[1]) =>
            /\ thr[t].ret = 0
            /\ initialized
            /\ ListContents = thr[t].exp[2]
            /\ \A np \in Nodes : FindNow(np) = thr[t].exp[3][np]

\* The second xlnx_vtc_list_init has returned on a list of two entries.
C18_Witness ==
    /\ Returned(1, "init") /\ thr[1].exp[1]
    /\ thr[1].exp[2] = <<1, 2>> /\ ListContents = <<1, 2>>
    /\ \A np \in Nodes : FindNow(np) = thr[1].exp[3][np]

\* The place of a step of xlnx_tpg_crtc_disable in the order of its steps.
DisableRank(step) ==
    CASE step = "xlnx_vtc_iface_disable" -> 1
      [] step = "complete_all" -> 2
      [] step = "drm_crtc_vblank_off" -> 3
      [] OTHER -> 0

\* The steps of xlnx_tpg_crtc_disable so far are in the order: disable of the
\* timing controller, completion of the state's event, drm_crtc_vblank_off.
DisableInOrder ==
    kms.op = "disable" =>
        /\ \A i, j \in 1..Len(kms.trace) :
              i < j => 0 < DisableRank(kms.trace[i])
                       /\ DisableRank(kms.trace[i]) < DisableRank(kms.trace[j])
        /\ kms.pc = "ret" =>
              /\ kms.trace[Len(kms.trace)] = "drm_crtc_vblank_off"
              /\ tpg.vtc # NULL => kms.trace[1] = "xlnx_vtc_iface_disable"
              /\ state_event = NULL

\* C21: xlnx_tpg_crtc_disable disables the timing controller (if there is
\* one) first, then resolves the pending event and clears the slot, and calls
\* drm_crtc_vblank_off last: the steps are in that order, and when
\* drm_crtc_vblank_off has run, the event that tpg->drm->event held at the
\* call has been resolved.
C21_DisableOrder ==
    /\ DisableInOrder
    /\ (KmsReturned("disable") /\ kms.pending # NULL) => Resolved(kms.pending) >= 1

\* C22: a call of xlnx_tpg_irq_handler that reads a status without the
\* frame-done bit returns IRQ_NONE at once: it does not call
\* drm_crtc_handle_vblank, and it leaves tpg->drm->event, the vblank
\* reference count and state, the sent and completed events and the CRTC's
\* enabled state as they were; of the registers only the status register is
\* written, with the value read.
C22_NotOursNoEffect ==
    [][(irq.pc = "idle" /\ irq'.pc # "idle" /\ ApDone(regs.IP_IRQ_STATUS) = 0) =>
          /\ irq' = [irq EXCEPT !.pc = "ret", !.ret = "IRQ_NONE",
                                !.status = regs.IP_IRQ_STATUS]
          /\ ~irq'.vbl
          /\ regs' = [regs EXCEPT !.IP_IRQ_STATUS = 0]
          /\ UNCHANGED <<drm_event, state_event, vblank, sent, completed, active,
                         tpg, event_lock>>]_vars

\* The handler has returned IRQ_NONE on the enabled CRTC while an event was
\* in tpg->drm->event with its vblank reference held; nothing was sent.
C22_Witness ==
    /\ irq.pc = "ret" /\ irq.ret = "IRQ_NONE" /\ ~irq.vbl
    /\ active /\ drm_event # NULL /\ vblank.refs = 1
    /\ Resolved(drm_event) = 0

\* No callback and no interrupt handler is in progress.
CrtcQuiescent == kms.pc \in {"idle", "ret"} /\ irq.pc \in {"idle", "ret"}

\* C23: the vblank reference taken when an event is stored in
\* tpg->drm->event is put exactly once, when that event is resolved: whenever
\* no callback and no handler is in progress, the driver holds one vblank
\* reference if tpg->drm->event holds an event and none if it is NULL.
C23_ReferencePerPendingEvent ==
    CrtcQuiescent => vblank.refs = (IF drm_event # NULL THEN 1 ELSE 0)

\* C24: whatever the interleaving of xlnx_vtc_list_fini with calls of
\* xlnx_vtc_register, xlnx_vtc_unregister and xlnx_of_find_vtc, a call that is
\* about to take vtc_list.lock, holds it, or reads or writes the list under it,
\* does so on a lock that has not been destroyed and on an initialized list.
C24_NoUseAfterFini ==
    \A t \in InFlight : lock_live /\ initialized

\* xlnx_vtc_list_init has returned from a call on a list that module exit left
\* with entries linked to the head.
ReInitReturned(t) ==
    Returned(t, "init") /\ ~thr[t].exp[1] /\ thr[t].exp[2] # <<>>

\* At the return of that init the list is empty and a lookup of any node
\* returns -EPROBE_DEFER and NULL.
EmptyAtReInit ==
    \A t \in Threads :
        ReInitReturned(t) =>
            /\ initialized /\ ListContents = <<>>
            /\ \A np \in Nodes :
                  FindNow(np) = [kind |-> "ret", ret |-> -EPROBE_DEFER, out |-> NULL]

\* C25: after xlnx_vtc_list_fini and a new xlnx_vtc_list_init the list is
\* empty: at the return of that init a lookup of any node returns
\* -EPROBE_DEFER and NULL, and from then on a lookup never returns an instance
\* that was not registered after that init.
C25_ReInitEmpty ==
    /\ EmptyAtReInit
    /\ initialized =>
          \A np \in Nodes : FindNow(np).out \in SeqSet(registered) \cup {NULL}

====
